---- MODULE Spec2Model ----
(***************************************************************************)
(* DESVICIAR.  The subscription reconciler: the Stripe webhook handlers     *)
(* (src/api/webhook.ts, two Vercel revisions; src/unnamed/part_003, the    *)
(* Netlify revision) and the identity store and users collection they      *)
(* write.  One handler invocation is a sequence of steps, one per await,   *)
(* so that concurrent deliveries interleave where the code suspends.       *)
(* The progress screen (src/unnamed/part_000): fetchHistory and            *)
(* processTriggerInsights as functions of their inputs, and fetchData as   *)
(* a sequence of steps, one per await.                                     *)
(***************************************************************************)
EXTENDS Integers, Sequences, FiniteSets, TLC

\* ------------------------------------------------------------------ bounds
\* webhook deliveries in one run
MaxReq == 2

Reqs == 1..MaxReq

\* ------------------------------------------------------------- value sets
\* JavaScript undefined / null: an absent field
NoValue == "undefined"

Emails == {"a@x", "b@x"}

\* Stripe customers the events name
Customers == {"cus_a", "cus_del"}

\* the three revisions of the handler
Variants == {"vercel1", "vercel2", "netlify"}

\* subscription.status as Stripe reports it on a subscription object
ProviderStatuses == {"trialing", "incomplete"}

\* a JavaScript truthiness test on a string-or-undefined value
Truthy(x) == x # NoValue /\ x # ""

\* the payload of a delivery: only the fields the handlers read.  A checkout
\* session carries customer_details and may carry customer_email; an invoice
\* carries customer_email; a subscription carries its customer and status
Events ==
  [type : {"checkout.session.completed"},
   details_email : {NoValue, "a@x"}, customer_email : {NoValue, "b@x"},
   customer : {"cus_a"}, status : {NoValue}]
  \cup
  [type : {"invoice.payment_succeeded", "invoice.payment_failed"},
   details_email : {NoValue}, customer_email : {NoValue, "a@x"},
   customer : {NoValue}, status : {NoValue}]
  \cup
  [type : {"customer.subscription.updated"},
   details_email : {NoValue}, customer_email : {NoValue},
   customer : Customers, status : ProviderStatuses]
  \cup
  [type : {"customer.subscription.deleted"},
   details_email : {NoValue}, customer_email : {NoValue},
   customer : Customers, status : {"canceled"}]
  \cup
  [type : {"customer.created"},
   details_email : {NoValue}, customer_email : {NoValue},
   customer : {"cus_a"}, status : {NoValue}]

\* the stripe-signature header: absent, or a signature made with some key
SigHeaders == {NoValue, "sig_whsec", "sig_empty", "sig_wrong"}

\* the key a signature header was computed with
SignedWith(header) ==
  CASE header = "sig_whsec" -> "whsec"
    [] header = "sig_empty" -> ""
    [] OTHER -> "wrong"

\* process.env.STRIPE_WEBHOOK_SECRET || ''
Secrets == {"", "whsec"}

\* the deliveries a run draws from: every event under Stripe's own
\* signature, and under each other header an event that would write an
\* account and one that no revision handles
Deliveries ==
  [event : Events, sig : {"sig_whsec"}]
  \cup
  [event : {ev \in Events :
              \/ ev.type = "customer.created"
              \/ /\ ev.type = "checkout.session.completed"
                 /\ ev.details_email = "a@x"
                 /\ ev.customer_email = NoValue},
   sig : SigHeaders \ {"sig_whsec"}]

\* ------------------------------------------------------------------ state
VARIABLES
  variant,        \* the revision that is deployed
  endpointSecret, \* the configured webhook secret ('' when unset)
  authUsers,      \* Firebase Auth: the set of identities
  nextUid,        \* the uid the next createUser hands out
  docs,           \* Firestore users/{uid}
  clock,          \* the Firestore server time
  reqs,           \* the handler invocations
  auth0,          \* history: authUsers at the start
  docs0           \* history: docs at the start

hookVars == <<variant, endpointSecret, authUsers, nextUid, docs, clock, reqs,
              auth0, docs0>>

\* the progress screen (ProgressScreen) and what it reads
VARIABLES
  selectedRange,  \* useState(7): the window size chosen
  loading,        \* useState(true)
  chartData,      \* useState([]): the chart points
  stats,          \* useState({average: 0, perfectDays: 0})
  triggerInsight, \* useState(null)
  streakStart,    \* users/{uid}.current_streak_start, as a local day
  zone,           \* the device's time zone: where a local day is not 24 hours
  history,        \* users/{uid}/daily_history: the record of each day
  logs,           \* what getTriggers resolves with
  historyResults, \* what fetchHistory returned
  calls           \* the fetchData invocations

progressVars == <<selectedRange, loading, chartData, stats, triggerInsight,
                  streakStart, zone, history, logs, historyResults, calls>>

\* the application shell (App), its auth guard and the login screen
VARIABLES
  guardRevision,  \* which revision of the auth guard is deployed
  account,        \* the state of the user's account document
  currentUser,    \* auth.currentUser
  authChanged,    \* auth state changes the observer has not yet been told
  user,           \* useState(null) of App
  appLoading,     \* useState(true) of App
  route,          \* the location of the HashRouter
  sessionError,   \* sessionStorage 'loginError'
  guards,         \* the invocations of the onAuthStateChanged callback
  login           \* handleSubmit of LoginScreen

appVars == <<guardRevision, account, currentUser, authChanged, user,
             appLoading, route, sessionError, guards, login>>

\* the scheduled inactivity task and the user documents it reads
VARIABLES
  time,    \* the time of day, in hours
  userDocs, \* per user: fcm_token, last_active_at, last_notification_sent_at
  run,     \* the invocation of the scheduled handler
  pushes   \* history: the notifications that messaging.send delivered

taskVars == <<time, userDocs, run, pushes>>

vars == <<hookVars, progressVars, appVars, taskVars>>

\* JavaScript's null, where an object is expected
Null == [null |-> TRUE]

\* a promise that has not settled
Pending == [pending |-> TRUE]

\* the time zone of a device whose days all have 24 hours
FixedZone == [kind |-> "fixed", day |-> 0]

\* handleSubmit before the form is submitted
IdleLogin ==
  [pc |-> "idle", outcome |-> NoValue, isLoading |-> FALSE,
   error |-> NoValue]

\* the application before it is opened
AppUnopened ==
  /\ guardRevision = "blacklist"
  /\ account = "none"
  /\ currentUser = NoValue
  /\ authChanged = <<>>
  /\ user = NoValue
  /\ appLoading = TRUE
  /\ route = "login"
  /\ sessionError = NoValue
  /\ guards = <<>>
  /\ login = IdleLogin

\* the scheduled handler between two invocations
IdleRun ==
  [pc |-> "idle", n |-> 0, now |-> 0, sends |-> <<>>, rejected |-> FALSE,
   statusCode |-> 0]

\* the inactivity task with no user to look at
TaskUnscheduled ==
  /\ time = 0
  /\ userDocs = <<>>
  /\ run = IdleRun
  /\ pushes = <<>>

\* the component as React mounts it, before any effect has run, with nothing
\* stored for the user
ProgressMounted ==
  /\ selectedRange = 7
  /\ loading = TRUE
  /\ chartData = <<>>
  /\ stats = [average |-> 0, perfectDays |-> 0]
  /\ triggerInsight = Null
  /\ streakStart = 0
  /\ zone = FixedZone
  /\ history = <<>>
  /\ logs = <<>>
  /\ historyResults = Pending
  /\ calls = <<>>

Uids == 1..(Cardinality(Emails) + MaxReq)

\* a users/{uid} document that does not exist
NoDoc ==
  [exists |-> FALSE, subscription_status |-> NoValue, updated_at |-> 0,
   email |-> NoValue, stripe_customer_id |-> NoValue,
   onboarding_completed |-> NoValue]

NoResponse == [code |-> 0, body |-> NoValue]

NoEvent ==
  [type |-> NoValue, details_email |-> NoValue, customer_email |-> NoValue,
   customer |-> NoValue, status |-> NoValue]

IdleReq ==
  [pc |-> "idle", event |-> NoEvent, sig |-> NoValue, email |-> NoValue,
   status |-> NoValue, customerId |-> NoValue, uid |-> 0,
   result |-> NoValue, response |-> NoResponse, sent |-> 0,
   fault |-> NoValue, conflict |-> FALSE, after |-> {}, wroteAt |-> 0,
   ops |-> <<>>]

\* history: the invocation has awaited one more call to a store or to Stripe
Did(q, op) == [q EXCEPT !.ops = Append(@, op)]

\* -------------------------------------------------- the vendor operations
\* stripe.webhooks.constructEvent: accepts exactly a header whose signature
\* was computed with the secret it is given (an HMAC); an empty header has
\* no signature to match
ConstructEvent(header, secret) ==
  header # "" /\ SignedWith(header) = secret

\* stripe.customers.retrieve(id).email: a deleted customer has none
CustomerEmail(c) == IF c = "cus_a" THEN "a@x" ELSE NoValue

\* mutant: identities are stored without their email, so none is ever found
UsersByEmail_Unindexed(users, e) == {}

\* auth.getUserByEmail: the identities registered under an email
UsersByEmail(users, e) == {u \in users : u.email = e}

\* mutant: the identity store accepts a second identity for an email
EmailTaken_Never(users, e) == FALSE

\* auth.createUser rejects an email that is registered
\* (auth/email-already-exists)
EmailTaken(users, e) == UsersByEmail(users, e) # {}

\* ------------------------------------------------------- signature check
\* webhook.ts: the handler's own guard, then constructEvent
VerifyVercel(sig, secret) ==
  Truthy(sig) /\ Truthy(secret) /\ ConstructEvent(sig, secret)

\* part_003: constructEvent(body || '', sig || '', endpointSecret), no guard
VerifyNetlify(sig, secret) ==
  ConstructEvent(IF Truthy(sig) THEN sig ELSE "", secret)

Verified(v, sig, secret) ==
  IF v = "netlify" THEN VerifyNetlify(sig, secret)
  ELSE VerifyVercel(sig, secret)

\* ------------------------------------------------------ the event switch
\* mutant: the default case falls through into the subscription case
Branch_DefaultFallsThrough(v, type) ==
  IF v = "netlify"
  THEN CASE type = "checkout.session.completed" -> "payment"
         [] type = "invoice.payment_failed" -> "failed"
         [] OTHER -> "subscription"
  ELSE CASE type \in {"checkout.session.completed",
                      "invoice.payment_succeeded"} -> "payment"
         [] type = "invoice.payment_failed" -> "failed"
         [] OTHER -> "subscription"

\* the case of the switch an event type falls in
Branch(v, type) ==
  IF v = "netlify"
  THEN CASE type = "checkout.session.completed" -> "payment"
         [] type = "invoice.payment_failed" -> "failed"
         [] type = "customer.subscription.deleted" -> "subscription"
         [] OTHER -> "default"
  ELSE CASE type \in {"checkout.session.completed",
                      "invoice.payment_succeeded"} -> "payment"
         [] type = "invoice.payment_failed" -> "failed"
         [] type \in {"customer.subscription.updated",
                      "customer.subscription.deleted"} -> "subscription"
         [] OTHER -> "default"

\* session.customer_details?.email || session.customer_email
SessionEmail(v, ev) ==
  IF v = "netlify" THEN ev.details_email
  ELSE IF Truthy(ev.details_email) THEN ev.details_email
  ELSE ev.customer_email

\* the status a subscription event stores
SubStatus(ev) ==
  IF ev.type = "customer.subscription.deleted" THEN "canceled"
  ELSE ev.status

\* the customer id a subscription event passes on
SubCustomerId(v, ev) ==
  CASE v = "vercel1" ->
         IF ev.type = "customer.subscription.updated" THEN ev.customer
         ELSE NoValue
    [] v = "vercel2" -> ev.customer
    [] OTHER -> NoValue

\* ------------------------------------------------------------ reconciler
\* mutant: updateData without subscription_status
MergeSet_NoStatus(doc, email, status, customerId, ts) ==
  [exists |-> TRUE,
   subscription_status |-> doc.subscription_status,
   updated_at |-> ts,
   email |-> email,
   stripe_customer_id |->
     IF Truthy(customerId) THEN customerId ELSE doc.stripe_customer_id,
   onboarding_completed |-> doc.onboarding_completed]

\* mutant: set(updateData) without {merge: true} replaces the document
MergeSet_Overwrite(doc, email, status, customerId, ts) ==
  [exists |-> TRUE,
   subscription_status |-> status,
   updated_at |-> ts,
   email |-> email,
   stripe_customer_id |-> IF Truthy(customerId) THEN customerId ELSE NoValue,
   onboarding_completed |-> NoValue]

\* mutant: a status already stored is never replaced (first write wins)
MergeSet_KeepFirst(doc, email, status, customerId, ts) ==
  [exists |-> TRUE,
   subscription_status |->
     IF doc.subscription_status # NoValue THEN doc.subscription_status
     ELSE status,
   updated_at |-> ts,
   email |-> email,
   stripe_customer_id |->
     IF Truthy(customerId) THEN customerId ELSE doc.stripe_customer_id,
   onboarding_completed |-> doc.onboarding_completed]

\* mutant: a canceled subscription removes the account document
MergeSet_DeleteOnCancel(doc, email, status, customerId, ts) ==
  IF status = "canceled" THEN NoDoc
  ELSE [exists |-> TRUE,
        subscription_status |-> status,
        updated_at |-> ts,
        email |-> email,
        stripe_customer_id |->
          IF Truthy(customerId) THEN customerId ELSE doc.stripe_customer_id,
        onboarding_completed |-> doc.onboarding_completed]

\* doc(uid).set(updateData, {merge: true}) at server time ts
MergeSet(doc, email, status, customerId, ts) ==
  [exists |-> TRUE,
   subscription_status |-> status,
   updated_at |-> ts,
   email |-> email,
   stripe_customer_id |->
     IF Truthy(customerId) THEN customerId ELSE doc.stripe_customer_id,
   onboarding_completed |-> doc.onboarding_completed]

\* res.status(code) with a body: the one response of an invocation
Respond(q, code, body) ==
  [q EXCEPT !.pc = "done", !.response = [code |-> code, body |-> body],
            !.sent = @ + 1]

\* syncSubscription is called: it runs to its first await, getUserByEmail
EnterSync(q, email, status, customerId) ==
  [q EXCEPT !.pc = "lookup", !.email = email, !.status = status,
            !.customerId = customerId]

\* mutant: the reconciler rethrows and nothing answers the request
SyncFailure_Uncaught(q) ==
  [q EXCEPT !.pc = "done", !.result = "false"]

\* mutant: the handler answers 500 when the reconciler returned false
SyncFailure_Signalled(q) ==
  [Respond(q, 500, "Internal Server Error") EXCEPT !.result = "false"]

\* mutant: the reconciler starts over after a failure
SyncFailure_StartOver(q) == [q EXCEPT !.pc = "lookup", !.fault = NoValue]

\* the reconciler's outer catch: log, return false; the handler then breaks
\* out of the switch and acknowledges
SyncFailure(q) ==
  [Respond(q, 200, "received") EXCEPT !.result = "false"]

\* mutant: the catch around the switch acknowledges like the normal path
HandlerCatch_Acknowledge(v, q) == Respond(q, 200, "received")

\* mutant: the catch around the switch runs the customer lookup again
HandlerCatch_Retry(v, q) == [q EXCEPT !.pc = "retrieve"]

\* the handler's catch around the switch
HandlerCatch(v, q) ==
  IF v = "netlify" THEN Respond(q, 200, "Processed with error")
  ELSE Respond(q, 500, "Internal Server Error")

\* switch (event.type), up to the first await of the case taken
Dispatch(v, q) ==
  LET ev == q.event
      b == Branch(v, ev.type)
  IN CASE b = "payment" ->
            IF Truthy(SessionEmail(v, ev))
            THEN EnterSync(q, SessionEmail(v, ev), "active", ev.customer)
            ELSE Respond(q, 200, "received")
       [] b = "failed" ->
            IF Truthy(ev.customer_email)
            THEN EnterSync(q, ev.customer_email, "past_due", NoValue)
            ELSE Respond(q, 200, "received")
       [] b = "subscription" -> [q EXCEPT !.pc = "retrieve"]
       [] OTHER -> Respond(q, 200, "received")

\* ------------------------------------------------------------ initial state
\* what an email may already own when the first delivery arrives: nothing,
\* an identity alone, an identity with the app's profile document, or an
\* account an earlier delivery has already synchronised
AccountKinds == {"absent", "bare", "profile", "member"}

InitUid(e) == IF e = "a@x" THEN 1 ELSE 2

InitDoc(kind, e) ==
  CASE kind = "profile" ->
         [NoDoc EXCEPT !.exists = TRUE, !.onboarding_completed = "true"]
    [] kind = "member" ->
         [exists |-> TRUE, subscription_status |-> "active", updated_at |-> 1,
          email |-> e, stripe_customer_id |-> "cus_old",
          onboarding_completed |-> "true"]
    [] OTHER -> NoDoc

Init ==
  /\ AppUnopened
  /\ TaskUnscheduled
  /\ variant \in Variants
  /\ endpointSecret \in Secrets
  /\ \E kinds \in [Emails -> AccountKinds] :
       /\ authUsers =
            {[uid |-> InitUid(e), email |-> e,
              emailVerified |-> (kinds[e] = "member")] :
               e \in {x \in Emails : kinds[x] # "absent"}}
       /\ docs =
            [u \in Uids |->
               IF \E e \in Emails : InitUid(e) = u
               THEN LET e == CHOOSE x \in Emails : InitUid(x) = u
                    IN InitDoc(kinds[e], e)
               ELSE NoDoc]
  /\ nextUid = Cardinality(Emails) + 1
  /\ clock = 1
  /\ reqs = [r \in Reqs |-> IdleReq]
  /\ auth0 = authUsers
  /\ docs0 = docs
  /\ ProgressMounted

\* ------------------------------------------------------------------ actions
\* a POST arrives; the handler suspends in getRawBody
Receive(r) ==
  /\ reqs[r].pc = "idle"
  /\ \A o \in Reqs : o < r => reqs[o].pc # "idle"
  /\ \E d \in Deliveries :
       reqs' = [reqs EXCEPT ![r] =
                  [@ EXCEPT !.pc = "verify", !.event = d.event,
                            !.sig = d.sig,
                            !.after = {o \in Reqs : reqs[o].pc = "done"}]]
  /\ UNCHANGED <<variant, endpointSecret, authUsers, nextUid, docs, clock,
                 auth0, docs0, progressVars, appVars, taskVars>>

\* the signature check, then the switch up to its first await
Verify(r) ==
  /\ reqs[r].pc = "verify"
  /\ reqs' = [reqs EXCEPT ![r] =
                IF Verified(variant, @.sig, endpointSecret)
                THEN Dispatch(variant, @)
                ELSE Respond(@, 400, "Webhook Error")]
  /\ UNCHANGED <<variant, endpointSecret, authUsers, nextUid, docs, clock,
                 auth0, docs0, progressVars, appVars, taskVars>>

\* await stripe.customers.retrieve(...) settles
RetrieveCustomer(r) ==
  /\ reqs[r].pc = "retrieve"
  /\ \/ reqs' = [reqs EXCEPT ![r] =
                   LET ev == @.event
                       email == CustomerEmail(ev.customer)
                       q == Did(@, "customers.retrieve")
                   IN IF Truthy(email)
                      THEN EnterSync(q, email, SubStatus(ev),
                                     SubCustomerId(variant, ev))
                      ELSE Respond(q, 200, "received")]
     \/ reqs' = [reqs EXCEPT ![r] =
                   HandlerCatch(variant,
                                [Did(@, "customers.retrieve:rejected")
                                   EXCEPT !.fault = "retrieve"])]
  /\ UNCHANGED <<variant, endpointSecret, authUsers, nextUid, docs, clock,
                 auth0, docs0, progressVars, appVars, taskVars>>

\* await auth.getUserByEmail(email) settles
GetUserByEmail(r) ==
  /\ reqs[r].pc = "lookup"
  /\ \/ /\ UsersByEmail(authUsers, reqs[r].email) # {}
        /\ \E u \in UsersByEmail(authUsers, reqs[r].email) :
             reqs' = [reqs EXCEPT ![r] =
                        [Did(@, "getUserByEmail") EXCEPT !.pc = "write",
                                                         !.uid = u.uid]]
     \/ /\ UsersByEmail(authUsers, reqs[r].email) = {}
        /\ reqs' = [reqs EXCEPT ![r] =
                      [Did(@, "getUserByEmail") EXCEPT !.pc = "create"]]
     \/ reqs' = [reqs EXCEPT ![r] =
                   SyncFailure([Did(@, "getUserByEmail:rejected")
                                  EXCEPT !.fault = "lookup"])]
  /\ UNCHANGED <<variant, endpointSecret, authUsers, nextUid, docs, clock,
                 auth0, docs0, progressVars, appVars, taskVars>>

\* await auth.createUser({email, emailVerified: true}) settles
CreateUser(r) ==
  /\ reqs[r].pc = "create"
  /\ \/ /\ ~EmailTaken(authUsers, reqs[r].email)
        /\ authUsers' = authUsers \cup
             {[uid |-> nextUid, email |-> reqs[r].email,
               emailVerified |-> TRUE]}
        /\ nextUid' = nextUid + 1
        /\ reqs' = [reqs EXCEPT ![r] =
                      [Did(@, "createUser") EXCEPT !.pc = "write",
                                                   !.uid = nextUid]]
     \/ /\ EmailTaken(authUsers, reqs[r].email)
        /\ reqs' = [reqs EXCEPT ![r] =
                      SyncFailure([Did(@, "createUser:rejected")
                                     EXCEPT !.conflict = TRUE])]
        /\ UNCHANGED <<authUsers, nextUid>>
     \/ /\ reqs' = [reqs EXCEPT ![r] =
                      SyncFailure([Did(@, "createUser:rejected")
                                     EXCEPT !.fault = "create"])]
        /\ UNCHANGED <<authUsers, nextUid>>
  /\ UNCHANGED <<variant, endpointSecret, docs, clock, auth0, docs0,
                 progressVars, appVars, taskVars>>

\* await db.collection('users').doc(uid).set(updateData, {merge: true})
DocSet(r) ==
  /\ reqs[r].pc = "write"
  /\ \/ /\ docs' = [docs EXCEPT ![reqs[r].uid] =
                      MergeSet(@, reqs[r].email, reqs[r].status,
                               reqs[r].customerId, clock + 1)]
        /\ clock' = clock + 1
        /\ reqs' = [reqs EXCEPT ![r] =
                      [Respond(Did(@, "set"), 200, "received") EXCEPT
                         !.result = "true", !.wroteAt = clock + 1]]
     \/ /\ reqs' = [reqs EXCEPT ![r] =
                      SyncFailure([Did(@, "set:rejected")
                                     EXCEPT !.fault = "write"])]
        /\ UNCHANGED <<docs, clock>>
  /\ UNCHANGED <<variant, endpointSecret, authUsers, nextUid, auth0, docs0,
                 progressVars, appVars, taskVars>>

Next ==
  \E r \in Reqs :
    \/ Receive(r)
    \/ Verify(r)
    \/ RetrieveCustomer(r)
    \/ GetUserByEmail(r)
    \/ CreateUser(r)
    \/ DocSet(r)

Spec == Init /\ [][Next]_vars

\* ======================================================= the progress screen
\* the webhook is not part of what the progress screen runs
HookUndeployed ==
  /\ variant = "vercel1"
  /\ endpointSecret = "whsec"
  /\ authUsers = {}
  /\ nextUid = 1
  /\ docs = [u \in Uids |-> NoDoc]
  /\ clock = 1
  /\ reqs = [r \in Reqs |-> IdleReq]
  /\ auth0 = {}
  /\ docs0 = [u \in Uids |-> NoDoc]

\* ------------------------------------------------------------------- dates
\* Days are counted from today (day 0); a Date is the time, in hours, of a
\* local midnight. formatDateKey names a local day, one key per day.
RANGES == <<7, 15, 30, 90>>

HoursPerDay == 24

Today == 0

\* the local day in whose night the clocks are changed, for the zones that
\* change them
TransitionDays == {-3}

\* "forward": the day `day` has 23 hours; "back": it has 25
Zones ==
  {FixedZone} \cup
  {[kind |-> k, day |-> d] : k \in {"forward", "back"}, d \in TransitionDays}

\* date.setHours(0, 0, 0, 0) on local day d: getTime(), in hours
Midnight(d, z) ==
  HoursPerDay * d +
    (CASE z.kind = "forward" /\ d > z.day -> -1
       [] z.kind = "back" /\ d > z.day -> 1
       [] OTHER -> 0)

\* Math.ceil(a / b), b > 0
MathCeil(a, b) == -((-a) \div b)

\* Math.round(a / b), b > 0: halves go up
MathRound(a, b) == (2 * a + b) \div (2 * b)

\* Math.min
MathMin(a, b) == IF a < b THEN a ELSE b

\* Math.ceil(diffTime / (1000 * 60 * 60 * 24)) + 1
DayNumber(target, start, z) ==
  MathCeil(Midnight(target, z) - Midnight(start, z), HoursPerDay) + 1

\* --------------------------------------------------------- daily records
StartDays == {-95, -89, -29, -14, -7, -6, -2, 0, 2}

RecordDays == {-3, 0}

\* a numeric field that the document does not have
Missing == -1

Counts == {Missing, 0, 1, 3, 6, 9}

Totals == {Missing, 0, 6, 8}

NoRecord ==
  [exists |-> FALSE, completed_count |-> Missing, total_habits |-> Missing]

Records ==
  {NoRecord} \cup
  {[exists |-> TRUE, completed_count |-> c, total_habits |-> t] :
     c \in Counts, t \in Totals}

Histories == [RecordDays -> Records]

DefaultTotal == 6

\* where("date", ">=", queryStartDateStr), collected into historyMap
QueryHistory(h, range) ==
  [d \in {x \in DOMAIN h : x >= Today - (range - 1) /\ h[x].exists} |-> h[d]]

\* historyMap.get(dateKey)
MapGet(m, d) == IF d \in DOMAIN m THEN m[d] ELSE NoRecord

\* record?.completed_count ?? 0
CompletedCount(rec) ==
  IF rec.completed_count = Missing THEN 0 ELSE rec.completed_count

\* record?.total_habits || 6
TotalTasks(rec) ==
  IF rec.total_habits \in {Missing, 0} THEN DefaultTotal ELSE rec.total_habits

\* mutant: the percentage is not capped
PointValue_Unclamped(rec) ==
  MathRound(100 * CompletedCount(rec), TotalTasks(rec))

\* mutant: the percentage is truncated instead of rounded
PointValue_Truncated(rec) ==
  MathMin((100 * CompletedCount(rec)) \div TotalTasks(rec), 100)

\* Math.min(Math.round((count / totalTasks) * 100), 100)
PointValue(rec) ==
  MathMin(MathRound(100 * CompletedCount(rec), TotalTasks(rec)), 100)

\* one pass of the for loop of fetchHistory, for offset i: the point of
\* local day today - i
PointAt(i, start, z, m) ==
  LET targetDate == Today - i
      record == MapGet(m, targetDate)
      dayNumber == DayNumber(targetDate, start, z)
  IN [label |-> <<"D", dayNumber>>,
      fullDate |-> targetDate,
      value |-> PointValue(record),
      count |-> CompletedCount(record),
      dayNumber |-> dayNumber]

\* the for loop of fetchHistory: offsets range - 1 down to 0 in this order,
\* `continue` for the days with dayNumber < 1, a push for the others
HistoryLoop(range, start, z, m) ==
  SelectSeq([k \in 1..range |-> PointAt(range - k, start, z, m)],
            LAMBDA p : p.dayNumber >= 1)

\* totalPercentage: the values of the points lo..hi added up
RECURSIVE TotalPercentage(_, _, _)
TotalPercentage(pts, lo, hi) ==
  IF lo > hi THEN 0
  ELSE IF lo = hi THEN pts[lo].value
  ELSE LET mid == (lo + hi) \div 2
       IN TotalPercentage(pts, lo, mid) + TotalPercentage(pts, mid + 1, hi)

\* perfectCount: value === 100
PerfectCount(pts) == Cardinality({k \in DOMAIN pts : pts[k].value = 100})

\* mutant: the average is taken over the whole window, not over the points
FetchHistory_WindowAverage(range, start, z, h) ==
  LET processedData == HistoryLoop(range, start, z, QueryHistory(h, range))
  IN [processedData |-> processedData,
      newStats |->
        [average |->
           MathRound(TotalPercentage(processedData, 1, Len(processedData)),
                     range),
         perfectDays |-> PerfectCount(processedData)]]

\* fetchHistory(uid, queryStartDateStr, streakStartDate, today)
FetchHistory(range, start, z, h) ==
  LET processedData == HistoryLoop(range, start, z, QueryHistory(h, range))
      validDaysCount == Len(processedData)
  IN [processedData |-> processedData,
      newStats |->
        [average |->
           IF validDaysCount > 0
           THEN MathRound(TotalPercentage(processedData, 1, validDaysCount),
                          validDaysCount)
           ELSE 0,
         perfectDays |-> PerfectCount(processedData)]]

\* the window sizes, as a set
RangeSet == {RANGES[i] : i \in DOMAIN RANGES}

\* fetchHistory over every window, streak start, zone and pair of records
InitHistory ==
  /\ HookUndeployed
  /\ AppUnopened
  /\ TaskUnscheduled
  /\ selectedRange \in RangeSet
  /\ streakStart \in StartDays
  /\ zone \in Zones
  /\ history \in Histories
  /\ loading = TRUE
  /\ chartData = <<>>
  /\ stats = [average |-> 0, perfectDays |-> 0]
  /\ triggerInsight = Null
  /\ logs = <<>>
  /\ historyResults = Pending
  /\ calls = <<>>

RunFetchHistory ==
  /\ historyResults = Pending
  /\ historyResults' = FetchHistory(selectedRange, streakStart, zone, history)
  /\ UNCHANGED <<hookVars, appVars, taskVars,
                 selectedRange, loading, chartData, stats,
                 triggerInsight, streakStart, zone, history, logs, calls>>

NextHistory == RunFetchHistory

SpecHistory == InitHistory /\ [][NextHistory]_vars

\* ----------------------------------------------------------- trigger logs
\* emotion and context are free-form strings; "7" and "12" are strings that
\* read as array indices
Emotions == {"anxiety", "boredom", "anger", "7"}

Contexts == {"home", "12"}

TriggerLogs == [emotion : Emotions, context : Contexts]

MaxLogs == 4

\* the scenario of the spec: anxiety 5, boredom 3, anger 3 over 11 logs
ExampleLogs ==
  [i \in 1..11 |->
     [emotion |-> CASE i \in {2, 5, 9} -> "boredom"
                    [] i \in {3, 4, 11} -> "anger"
                    [] OTHER -> "anxiety",
      context |-> "home"]]

LogLists ==
  {ExampleLogs} \cup UNION {[1..n -> TriggerLogs] : n \in 0..MaxLogs}

\* the number a property key stands for when it is an array index
IndexOf(key) ==
  CASE key = "7" -> 7
    [] key = "12" -> 12
    [] OTHER -> -1

IsIndex(key) == IndexOf(key) >= 0

\* counts[key] = (counts[key] || 0) + 1 on an object kept as the sequence of
\* its properties in the order they were created
Increment(obj, key) ==
  IF \E i \in DOMAIN obj : obj[i].name = key
  THEN [i \in DOMAIN obj |->
          IF obj[i].name = key
          THEN [name |-> key, count |-> obj[i].count + 1]
          ELSE obj[i]]
  ELSE Append(obj, [name |-> key, count |-> 1])

\* logs.forEach(log => ...) for one of the two tallies
RECURSIVE Tally(_, _, _)
Tally(ls, field, obj) ==
  IF ls = <<>> THEN obj
  ELSE Tally(Tail(ls), field, Increment(obj, Head(ls)[field]))

\* the properties of obj whose keys are array indices, in ascending order
RECURSIVE IndexEntries(_)
IndexEntries(obj) ==
  LET idx == {i \in DOMAIN obj : IsIndex(obj[i].name)}
  IN IF idx = {} THEN <<>>
     ELSE LET least ==
                CHOOSE i \in idx :
                  \A j \in idx : IndexOf(obj[i].name) <= IndexOf(obj[j].name)
          IN <<obj[least]>> \o
             IndexEntries(SelectSeq(obj, LAMBDA e : e.name # obj[least].name))

\* Object.entries(obj): array-index keys first, in ascending numeric order,
\* then the other keys in the order they were created
ObjectEntries(obj) ==
  IndexEntries(obj) \o SelectSeq(obj, LAMBDA e : ~IsIndex(e.name))

\* entries.forEach(([name, count]) => { if (count > max.count) max = ... })
RECURSIVE ScanMax(_, _)
ScanMax(entries, max) ==
  IF entries = <<>> THEN max
  ELSE ScanMax(Tail(entries),
               IF Head(entries).count > max.count THEN Head(entries)
               ELSE max)

\* one step of a stable sort by descending count: e goes behind every entry
\* whose count is not smaller
InsertByCount(sorted, e) ==
  LET ahead == SelectSeq(sorted, LAMBDA x : x.count >= e.count)
      behind == SelectSeq(sorted, LAMBDA x : x.count < e.count)
  IN ahead \o <<e>> \o behind

\* entries.sort((a, b) => b.count - a.count)
RECURSIVE SortByCount(_, _)
SortByCount(entries, sorted) ==
  IF entries = <<>> THEN sorted
  ELSE SortByCount(Tail(entries), InsertByCount(sorted, Head(entries)))

\* array.slice(0, n)
Slice(seq, n) == SubSeq(seq, 1, MathMin(n, Len(seq)))

TopN == 3

\* 0 / 0 in JavaScript
NaN == [nan |-> TRUE]

\* Math.round((count / logs.length) * 100)
Percentage(count, total) ==
  IF total = 0 THEN NaN ELSE MathRound(100 * count, total)

\* { ...max, percentage }
WithPercentage(max, total) ==
  [name |-> max.name, count |-> max.count,
   percentage |-> Percentage(max.count, total)]

NoMax == [name |-> "", count |-> 0]

\* processTriggerInsights past its guard: the tallies, the two maxima and
\* the ranking
Summarise(ls) ==
  LET emotionCounts == Tally(ls, "emotion", <<>>)
      contextCounts == Tally(ls, "context", <<>>)
      maxEmotion == ScanMax(ObjectEntries(emotionCounts), NoMax)
      maxContext == ScanMax(ObjectEntries(contextCounts), NoMax)
      ranking == Slice(SortByCount(ObjectEntries(emotionCounts), <<>>), TopN)
  IN [totalLogs |-> Len(ls),
      topEmotion |-> WithPercentage(maxEmotion, Len(ls)),
      topContext |-> WithPercentage(maxContext, Len(ls)),
      ranking |-> ranking]

\* mutant: no guard for the empty list
ProcessTriggerInsights_Unguarded(ls) == Summarise(ls)

\* processTriggerInsights(logs): the value handed to setTriggerInsight
ProcessTriggerInsights(ls) ==
  IF Len(ls) = 0
  THEN [totalLogs |-> 0, topEmotion |-> Null, topContext |-> Null,
        ranking |-> <<>>]
  ELSE Summarise(ls)

\* processTriggerInsights over every list of trigger logs
InitInsight ==
  /\ HookUndeployed
  /\ AppUnopened
  /\ TaskUnscheduled
  /\ logs \in LogLists
  /\ selectedRange = 7
  /\ loading = TRUE
  /\ chartData = <<>>
  /\ stats = [average |-> 0, perfectDays |-> 0]
  /\ triggerInsight = Null
  /\ streakStart = 0
  /\ zone = FixedZone
  /\ history = <<>>
  /\ historyResults = Pending
  /\ calls = <<>>

RunProcessTriggerInsights ==
  /\ triggerInsight = Null
  /\ triggerInsight' = ProcessTriggerInsights(logs)
  /\ UNCHANGED <<hookVars, appVars, taskVars,
                 selectedRange, loading, chartData, stats,
                 streakStart, zone, history, logs, historyResults, calls>>

NextInsight == RunProcessTriggerInsights

SpecInsight == InitInsight /\ [][NextInsight]_vars

\* --------------------------------------------------------------- fetchData
\* fetchData invocations in one run: the one of the mount effect and those
\* of the range changes that follow
MaxCalls == 2

CallIds == 1..MaxCalls

\* trigger logs appended while the screen is open
MaxAppended == 1

IdleCall ==
  [pc |-> "idle", range |-> 0, hist |-> "idle", trig |-> "idle",
   historyResults |-> Pending, triggerLogs |-> <<>>, outcome |-> NoValue,
   doneAt |-> 0]

\* the state of a day on which every habit was completed
PerfectRecord ==
  [exists |-> TRUE, completed_count |-> 6, total_habits |-> Missing]

\* a trigger log of the given local day
LogOn(emotion, d) == [emotion |-> emotion, context |-> "home", day |-> d]

\* getTriggers(uid, queryStartDateStr): the logs of the window
GetTriggers(ls, range) ==
  SelectSeq(ls, LAMBDA l : l.day >= Today - (range - 1))

\* the three pieces of derived state
Derived ==
  [chartData |-> chartData, stats |-> stats,
   triggerInsight |-> triggerInsight]

\* mutant: the history is awaited and shown on its own, before the triggers
Settle_HistoryFirst(q, cur) ==
  [chartData |->
     IF q.hist = "ok" THEN q.historyResults.processedData ELSE cur.chartData,
   stats |-> IF q.hist = "ok" THEN q.historyResults.newStats ELSE cur.stats,
   triggerInsight |->
     IF q.hist = "ok" /\ q.trig = "ok"
     THEN ProcessTriggerInsights(q.triggerLogs)
     ELSE cur.triggerInsight]

\* what follows `await Promise.all([historyPromise, triggersPromise])`: the
\* three setters when both resolved, the catch block when one rejected
Settle(q, cur) ==
  IF q.hist = "ok" /\ q.trig = "ok"
  THEN [chartData |-> q.historyResults.processedData,
        stats |-> q.historyResults.newStats,
        triggerInsight |-> ProcessTriggerInsights(q.triggerLogs)]
  ELSE cur

\* how many invocations have returned
Returned == Cardinality({c \in CallIds : calls[c].pc = "done"})

\* the screen opens on a user's data
InitFetch ==
  /\ HookUndeployed
  /\ AppUnopened
  /\ TaskUnscheduled
  /\ selectedRange = 7
  /\ loading = TRUE
  /\ chartData = <<>>
  /\ stats = [average |-> 0, perfectDays |-> 0]
  /\ triggerInsight = Null
  /\ streakStart \in {-7, 0}
  /\ zone = FixedZone
  /\ history \in [RecordDays -> {NoRecord, PerfectRecord}]
  /\ logs \in {<<>>, <<LogOn("boredom", -10)>>,
               <<LogOn("boredom", -10), LogOn("anger", -1)>>}
  /\ historyResults = Pending
  /\ calls = [c \in CallIds |-> IdleCall]

\* fetchData() up to `await getDoc(userDocRef)`, or its early return when
\* nobody is signed in
Enter(c, range) ==
  \/ calls' = [calls EXCEPT ![c] =
                 [@ EXCEPT !.pc = "done", !.range = range,
                           !.outcome = "nouser", !.doneAt = Returned + 1]]
     /\ UNCHANGED loading
  \/ calls' = [calls EXCEPT ![c] = [@ EXCEPT !.pc = "userDoc",
                                             !.range = range]]
     /\ loading' = TRUE

\* useEffect(() => { fetchData(); }, [selectedRange]) on mount
Mount ==
  /\ calls[1].pc = "idle"
  /\ Enter(1, selectedRange)
  /\ UNCHANGED <<hookVars, appVars, taskVars,
                 selectedRange, chartData, stats, triggerInsight,
                 streakStart, zone, history, logs, historyResults>>

\* setSelectedRange(range) from a range button, and the effect it triggers
SelectRange(c, range) ==
  /\ c > 1 /\ calls[c].pc = "idle" /\ calls[c - 1].pc # "idle"
  /\ range # selectedRange
  /\ selectedRange' = range
  /\ Enter(c, range)
  /\ UNCHANGED <<hookVars, appVars, taskVars,
                 chartData, stats, triggerInsight, streakStart,
                 zone, history, logs, historyResults>>

\* await getDoc(userDocRef) settles; on success fetchHistory and getTriggers
\* are both started
UserDocSettles(c) ==
  /\ calls[c].pc = "userDoc"
  /\ \/ /\ calls' = [calls EXCEPT ![c] =
                       [@ EXCEPT !.pc = "fetching", !.hist = "pending",
                                 !.trig = "pending"]]
        /\ UNCHANGED loading
     \/ /\ calls' = [calls EXCEPT ![c] =
                       [@ EXCEPT !.pc = "done", !.outcome = "failed",
                                 !.doneAt = Returned + 1]]
        /\ loading' = FALSE
  /\ UNCHANGED <<hookVars, appVars, taskVars,
                 selectedRange, chartData, stats, triggerInsight,
                 streakStart, zone, history, logs, historyResults>>

\* fetchHistory's getDocs settles: the points and statistics are computed,
\* or the promise rejects
HistorySettles(c) ==
  /\ calls[c].pc = "fetching" /\ calls[c].hist = "pending"
  /\ \/ calls' = [calls EXCEPT ![c] =
                    [@ EXCEPT !.hist = "ok",
                              !.historyResults =
                                 FetchHistory(calls[c].range, streakStart, zone,
                                              history)]]
     \/ calls' = [calls EXCEPT ![c] = [@ EXCEPT !.hist = "failed"]]
  /\ UNCHANGED <<hookVars, appVars, taskVars,
                 selectedRange, loading, chartData, stats,
                 triggerInsight, streakStart, zone, history, logs,
                 historyResults>>

\* getTriggers settles
TriggersSettle(c) ==
  /\ calls[c].pc = "fetching" /\ calls[c].trig = "pending"
  /\ \/ calls' = [calls EXCEPT ![c] =
                    [@ EXCEPT !.trig = "ok",
                              !.triggerLogs =
                                 GetTriggers(logs, calls[c].range)]]
     \/ calls' = [calls EXCEPT ![c] = [@ EXCEPT !.trig = "failed"]]
  /\ UNCHANGED <<hookVars, appVars, taskVars,
                 selectedRange, loading, chartData, stats,
                 triggerInsight, streakStart, zone, history, logs,
                 historyResults>>

\* Promise.all has settled (both resolved, or one rejected) and fetchData
\* runs to its end: the setters or the catch block, then finally
Resume(c) ==
  /\ calls[c].pc = "fetching"
  /\ \/ calls[c].hist = "ok" /\ calls[c].trig = "ok"
     \/ calls[c].hist = "failed"
     \/ calls[c].trig = "failed"
  /\ LET next == Settle(calls[c], Derived)
     IN /\ chartData' = next.chartData
        /\ stats' = next.stats
        /\ triggerInsight' = next.triggerInsight
  /\ loading' = FALSE
  /\ calls' = [calls EXCEPT ![c] =
                 [@ EXCEPT !.pc = "done",
                           !.outcome =
                              IF calls[c].hist = "ok" /\ calls[c].trig = "ok"
                              THEN "ok"
                              ELSE "failed",
                           !.doneAt = Returned + 1]]
  /\ UNCHANGED <<hookVars, appVars, taskVars,
                 selectedRange, streakStart, zone, history, logs,
                 historyResults>>

\* the user records a trigger while the screen is open
LogTrigger ==
  /\ Len(logs) < 2 + MaxAppended
  /\ logs' = Append(logs, LogOn("anxiety", Today))
  /\ UNCHANGED <<hookVars, appVars, taskVars,
                 selectedRange, loading, chartData, stats,
                 triggerInsight, streakStart, zone, history, historyResults,
                 calls>>

NextFetch ==
  \/ Mount
  \/ \E c \in CallIds, range \in RangeSet : SelectRange(c, range)
  \/ \E c \in CallIds :
       \/ UserDocSettles(c)
       \/ HistorySettles(c)
       \/ TriggersSettle(c)
       \/ Resume(c)
  \/ LogTrigger

SpecFetch == InitFetch /\ [][NextFetch]_vars

\* -------------------------------------------------------------- auth guard
\* invocations of the onAuthStateChanged callback in one run
MaxGuards == 4

GuardIds == 1..MaxGuards

\* "blacklist" is the guard of src/vite.config.ts, "whitelist" the one of
\* src/unnamed/part_001
GuardRevisions == {"blacklist", "whitelist"}

\* the account document: none, one without subscription_status ("absent"),
\* or one with the given subscription_status
AccountStates ==
  {"nodoc", "absent", "active", "trialing", "past_due", "canceled", "unpaid"}

\* const blockedStatuses = ['canceled', 'unpaid', 'past_due']
blockedStatuses == {"canceled", "unpaid", "past_due"}

\* the one user of the device
TheUser == "user"

AppRoutes ==
  {"login", "support", "onboarding", "dashboard", "progress", "learning",
   "profile", "sos"}

\* the routes whose element is `user ? <Screen /> : <Navigate to LOGIN />`
ProtectedRoutes == AppRoutes \ {"login", "support"}

IdleGuard ==
  [pc |-> "idle", currentUser |-> NoValue, snap |-> NoValue,
   outcome |-> NoValue]

\* the <Navigate replace /> elements of AppContent, which is rendered only
\* when loading is false
Redirected(r, u, ld) ==
  CASE ld -> r
    [] u # NoValue /\ r = "login" -> "dashboard"
    [] u = NoValue /\ r \in ProtectedRoutes -> "login"
    [] OTHER -> r

\* the guard's test on the document it read
GuardBlocks(rev, doc) ==
  /\ doc # "nodoc"
  /\ IF rev = "blacklist"
     THEN doc \in blockedStatuses
     ELSE doc # "active"

\* the message the guard leaves for the login screen
GuardMessage(rev) == IF rev = "blacklist" THEN "expired" ELSE "inactive"

\* the application is opened
InitApp ==
  /\ HookUndeployed
  /\ ProgressMounted
  /\ TaskUnscheduled
  /\ guardRevision \in GuardRevisions
  /\ account \in AccountStates
  /\ currentUser \in {NoValue, TheUser}
  /\ authChanged = <<>>
  /\ user = NoValue
  /\ appLoading = TRUE
  /\ route = "login"
  /\ sessionError = NoValue
  /\ guards = [g \in GuardIds |-> IdleGuard]
  /\ login = IdleLogin

\* setUser(u) and the finally block of the callback: setLoading(false)
GuardFinish(g, snap, u, outcome) ==
  /\ user' = u
  /\ appLoading' = FALSE
  /\ route' = Redirected(route, u, FALSE)
  /\ guards' = [guards EXCEPT ![g] =
                  [@ EXCEPT !.pc = "done", !.snap = snap,
                            !.outcome = outcome]]

\* the catch block of the callback, then finally
GuardCatch(g) ==
  /\ GuardFinish(g, guards[g].snap,
                 IF guardRevision = "blacklist"
                 THEN guards[g].currentUser
                 ELSE NoValue,
                 "error")
  /\ UNCHANGED <<currentUser, authChanged, sessionError>>

\* Firebase sets auth.currentUser and queues a call of the observers when
\* the user changed
SetCurrentUser(u) ==
  /\ currentUser' = u
  /\ authChanged' =
       IF u # currentUser THEN Append(authChanged, u) ELSE authChanged

\* onAuthStateChanged calls the callback: once when the observer is
\* registered, then after each change; the callback runs up to
\* `await getDoc(userDocRef)`, or to its end when nobody is signed in
OnAuthStateChanged(g) ==
  /\ guards[g].pc = "idle"
  /\ \A h \in GuardIds : h < g => guards[h].pc # "idle"
  /\ g > 1 => authChanged # <<>>
  /\ LET cu == IF g = 1 THEN currentUser ELSE Head(authChanged)
     IN /\ authChanged' = IF g = 1 THEN authChanged ELSE Tail(authChanged)
        /\ IF cu = NoValue
           THEN GuardFinish(g, NoValue, NoValue, "nouser")
           ELSE /\ guards' = [guards EXCEPT ![g] =
                                [@ EXCEPT !.pc = "getDoc",
                                          !.currentUser = cu]]
                /\ UNCHANGED <<user, appLoading, route>>
  /\ UNCHANGED <<hookVars, progressVars, taskVars, guardRevision, account,
                 currentUser, sessionError, login>>

\* the guard's getDoc settles
GuardGetDocSettles(g) ==
  /\ guards[g].pc = "getDoc"
  /\ \/ /\ GuardBlocks(guardRevision, account)
        /\ sessionError' = GuardMessage(guardRevision)
        /\ guards' = [guards EXCEPT ![g] =
                        [@ EXCEPT !.pc = "signOut", !.snap = account]]
        /\ UNCHANGED <<currentUser, authChanged, user, appLoading, route>>
     \/ /\ ~GuardBlocks(guardRevision, account)
        /\ GuardFinish(g, account, guards[g].currentUser, "admit")
        /\ UNCHANGED <<currentUser, authChanged, sessionError>>
     \/ GuardCatch(g)
  /\ UNCHANGED <<hookVars, progressVars, taskVars, guardRevision, account,
                 login>>

\* the guard's `await signOut(auth)` settles
GuardSignOutSettles(g) ==
  /\ guards[g].pc = "signOut"
  /\ \/ /\ SetCurrentUser(NoValue)
        /\ GuardFinish(g, guards[g].snap, NoValue, "block")
        /\ UNCHANGED sessionError
     \/ GuardCatch(g)
  /\ UNCHANGED <<hookVars, progressVars, taskVars, guardRevision, account,
                 login>>

\* the user opens another location
OpenRoute(r) ==
  /\ r # route
  /\ route' = Redirected(r, user, appLoading)
  /\ route' # route
  /\ UNCHANGED <<hookVars, progressVars, taskVars, guardRevision, account,
                 currentUser, authChanged, user, appLoading, sessionError,
                 guards, login>>

\* ------------------------------------------------------------ login screen
\* the catch block of handleSubmit
LoginCatch ==
  /\ login' = [login EXCEPT !.pc = "done", !.outcome = "error",
                            !.error = "message", !.isLoading = FALSE]
  /\ UNCHANGED <<currentUser, authChanged, route>>

\* handleSubmit up to `await signInWithEmailAndPassword(...)`
Submit ==
  /\ ~appLoading /\ user = NoValue /\ route = "login"
  /\ login.pc = "idle"
  /\ login' = [login EXCEPT !.pc = "signIn", !.error = NoValue,
                            !.isLoading = TRUE]
  /\ UNCHANGED <<hookVars, progressVars, taskVars, guardRevision, account,
                 currentUser, authChanged, user, appLoading, route,
                 sessionError, guards>>

\* signInWithEmailAndPassword settles
SignInSettles ==
  /\ login.pc = "signIn"
  /\ \/ /\ SetCurrentUser(TheUser)
        /\ login' = [login EXCEPT !.pc = "getDoc"]
        /\ UNCHANGED route
     \/ LoginCatch
  /\ UNCHANGED <<hookVars, progressVars, taskVars, guardRevision, account,
                 user, appLoading, sessionError, guards>>

\* the login screen's test on the document it read
LoginBlocks(doc) == doc # "nodoc" /\ doc # "active"

\* the login screen's getDoc settles
LoginGetDocSettles ==
  /\ login.pc = "getDoc"
  /\ \/ /\ LoginBlocks(account)
        /\ login' = [login EXCEPT !.pc = "signOut"]
        /\ UNCHANGED <<currentUser, authChanged, route>>
     \/ /\ ~LoginBlocks(account)
        /\ \E target \in IF account = "nodoc"
                         THEN {"onboarding"}
                         ELSE {"onboarding", "dashboard"} :
             route' = Redirected(target, user, appLoading)
        /\ login' = [login EXCEPT !.pc = "done", !.outcome = "admit"]
        /\ UNCHANGED <<currentUser, authChanged>>
     \/ LoginCatch
  /\ UNCHANGED <<hookVars, progressVars, taskVars, guardRevision, account,
                 user, appLoading, sessionError, guards>>

\* the login screen's `await signOut(auth)` settles
LoginSignOutSettles ==
  /\ login.pc = "signOut"
  /\ \/ /\ SetCurrentUser(NoValue)
        /\ login' = [login EXCEPT !.pc = "done", !.outcome = "signedOut",
                                  !.error = "inactive",
                                  !.isLoading = FALSE]
        /\ UNCHANGED route
     \/ LoginCatch
  /\ UNCHANGED <<hookVars, progressVars, taskVars, guardRevision, account,
                 user, appLoading, sessionError, guards>>

NextApp ==
  \/ \E g \in GuardIds :
       \/ OnAuthStateChanged(g)
       \/ GuardGetDocSettles(g)
       \/ GuardSignOutSettles(g)
  \/ \E r \in AppRoutes : OpenRoute(r)
  \/ Submit
  \/ SignInSettles
  \/ LoginGetDocSettles
  \/ LoginSignOutSettles

SpecApp == InitApp /\ [][NextApp]_vars

\* --------------------------------------------------------- inactivity task
\* the users the task looks at
MaxUsers == 1

TaskUsers == 1..MaxUsers

\* invocations of the scheduled handler in one run
MaxRuns == 2

\* the last hour of a run
MaxHour == 48

\* how far the time advances in one step
TickHours == {4, 20}

\* now.getTime() - (24 * 60 * 60 * 1000), in hours
InactiveHours == 24

\* now.getTime() - (20 * 60 * 60 * 1000), in hours
SafetyHours == 20

\* the values of last_active_at when the run begins
ActiveTimes == {Missing, 0, 8}

\* a user document as the task sees it; a time that is not there is Missing
TaskDoc(token, active, sent) ==
  [fcm_token |-> token, last_active_at |-> active,
   last_notification_sent_at |-> sent]

NoSend == [st |-> "none", doc |-> TaskDoc(FALSE, Missing, Missing)]

\* where('last_active_at', '<', dataLimite)
Snapshot(docs_, dataLimite) ==
  {u \in DOMAIN docs_ :
     /\ docs_[u].last_active_at # Missing
     /\ docs_[u].last_active_at < dataLimite}

\* the two early returns of the forEach callback
ShouldSend(userData, janelaSeguranca20h) ==
  /\ userData.fcm_token
  /\ \/ userData.last_notification_sent_at = Missing
     \/ ~(userData.last_notification_sent_at > janelaSeguranca20h)

InitTask ==
  /\ HookUndeployed
  /\ ProgressMounted
  /\ AppUnopened
  /\ time = 0
  /\ userDocs \in [TaskUsers ->
                   {TaskDoc(t, a, Missing) :
                      t \in BOOLEAN, a \in ActiveTimes}]
  /\ run = [IdleRun EXCEPT !.sends = [u \in TaskUsers |-> NoSend]]
  /\ pushes = <<>>

\* time passes
Tick(h) ==
  /\ time + h <= MaxHour
  /\ time' = time + h
  /\ UNCHANGED <<hookVars, progressVars, appVars, userDocs, run, pushes>>

\* the handler is invoked: now, dataLimite, janelaSeguranca20h, and the
\* query is sent
StartRun ==
  /\ run.pc \in {"idle", "done"}
  /\ run.n < MaxRuns
  /\ run' = [pc |-> "query", n |-> run.n + 1, now |-> time,
             sends |-> [u \in TaskUsers |-> NoSend], rejected |-> FALSE,
             statusCode |-> 0]
  /\ UNCHANGED <<hookVars, progressVars, appVars, time, userDocs, pushes>>

\* the query settles: the forEach over the snapshot starts one send per
\* user that passes the two tests
QuerySettles ==
  /\ run.pc = "query"
  /\ \/ LET snapshot == Snapshot(userDocs, run.now - InactiveHours)
        IN IF snapshot = {}
           THEN run' = [run EXCEPT !.pc = "done", !.statusCode = 200]
           ELSE run' =
                  [run EXCEPT
                     !.pc = "sending",
                     !.sends =
                        [u \in TaskUsers |->
                           IF /\ u \in snapshot
                              /\ ShouldSend(userDocs[u],
                                            run.now - SafetyHours)
                           THEN [st |-> "send", doc |-> userDocs[u]]
                           ELSE NoSend]]
     \/ run' = [run EXCEPT !.pc = "done", !.statusCode = 500]
  /\ UNCHANGED <<hookVars, progressVars, appVars, time, userDocs, pushes>>

\* messaging.send settles: delivered, rejected for the token, or rejected
\* for another reason
SendSettles(u) ==
  /\ run.pc = "sending" /\ run.sends[u].st = "send"
  /\ \/ /\ pushes' = Append(pushes, [user |-> u, at |-> time, run |-> run.n,
                                     now |-> run.now,
                                     doc |-> run.sends[u].doc])
        /\ run' = [run EXCEPT !.sends[u].st = "update"]
     \/ /\ run' = [run EXCEPT !.sends[u].st = "delete"]
        /\ UNCHANGED pushes
     \/ /\ run' = [run EXCEPT !.sends[u].st = "settled"]
        /\ UNCHANGED pushes
  /\ UNCHANGED <<hookVars, progressVars, appVars, time, userDocs>>

\* doc.ref.update({last_notification_sent_at: serverTimestamp()}) settles;
\* its rejection is swallowed by the catch callback
UpdateSettles(u) ==
  /\ run.pc = "sending" /\ run.sends[u].st = "update"
  /\ \/ userDocs' = [userDocs EXCEPT ![u].last_notification_sent_at = time]
     \/ UNCHANGED userDocs
  /\ run' = [run EXCEPT !.sends[u].st = "settled"]
  /\ UNCHANGED <<hookVars, progressVars, appVars, time, pushes>>

\* doc.ref.update({fcm_token: FieldValue.delete()}) settles; its rejection
\* rejects the promise given to Promise.all
DeleteSettles(u) ==
  /\ run.pc = "sending" /\ run.sends[u].st = "delete"
  /\ \/ /\ userDocs' = [userDocs EXCEPT ![u].fcm_token = FALSE]
        /\ run' = [run EXCEPT !.sends[u].st = "settled"]
     \/ /\ UNCHANGED userDocs
        /\ run' = [run EXCEPT !.sends[u].st = "settled", !.rejected = TRUE]
  /\ UNCHANGED <<hookVars, progressVars, appVars, time, pushes>>

\* await Promise.all(promises) settles and the handler returns
Finish ==
  /\ run.pc = "sending"
  /\ \A u \in TaskUsers : run.sends[u].st \in {"none", "settled"}
  /\ run' = [run EXCEPT !.pc = "done",
                        !.statusCode = IF run.rejected THEN 500 ELSE 200]
  /\ UNCHANGED <<hookVars, progressVars, appVars, time, userDocs, pushes>>

NextTask ==
  \/ \E h \in TickHours : Tick(h)
  \/ StartRun
  \/ QuerySettles
  \/ \E u \in TaskUsers :
       \/ SendSettles(u)
       \/ UpdateSettles(u)
       \/ DeleteSettles(u)
  \/ Finish

SpecTask == InitTask /\ [][NextTask]_vars

\* =================================================================== claims
\* the identities registered under an email, read off the store itself
IdentitiesOf(users, e) == {x \in users : x.email = e}

\* the handler took the delivery's signature for good
Accepted(r) == Verified(variant, reqs[r].sig, endpointSecret)

\* the document one successful upsert of q's arguments makes of d0
ExpectedDoc(d0, q, ts) ==
  [exists |-> TRUE,
   subscription_status |-> q.status,
   updated_at |-> ts,
   email |-> q.email,
   stripe_customer_id |->
     IF q.customerId \in {NoValue, ""} THEN d0.stripe_customer_id
     ELSE q.customerId,
   onboarding_completed |-> d0.onboarding_completed]

\* the store is what one successful delivery of q, alone, makes of the
\* initial store: the email's one identity (provisioned if there was none)
\* and its document upserted once
SingleDeliveryState(q) ==
  \E u \in Uids :
    /\ \A x \in IdentitiesOf(authUsers, q.email) : x.uid = u
    /\ Cardinality(IdentitiesOf(authUsers, q.email)) = 1
    /\ IF IdentitiesOf(auth0, q.email) = {}
       THEN /\ authUsers = auth0 \cup
                 {[uid |-> u, email |-> q.email, emailVerified |-> TRUE]}
            /\ \A x \in auth0 : x.uid # u
       ELSE authUsers = auth0
    /\ docs[u].updated_at > docs0[u].updated_at
    /\ docs[u].updated_at <= clock
    /\ docs = [docs0 EXCEPT ![u] =
                 ExpectedDoc(docs0[u], q, docs[u].updated_at)]

\* the reconciler of invocation r has just returned true
SyncReturnsTrue(r) ==
  reqs[r].pc = "write" /\ reqs'[r].result = "true"

\* r's reconciler call is complete and its postcondition holds
SyncPost(r) ==
  LET q == reqs[r]
  IN /\ Cardinality(IdentitiesOf(authUsers, q.email)) = 1
     /\ \A x \in IdentitiesOf(authUsers, q.email) :
          /\ x.uid = q.uid
          /\ docs[x.uid].exists
          /\ docs[x.uid].subscription_status = q.status
          /\ docs[x.uid].email = q.email
          /\ (q.customerId \notin {NoValue, ""}
                => docs[x.uid].stripe_customer_id = q.customerId)

\* C1: whenever the reconciler returns true for (email, status, customerId),
\* exactly one identity exists for the email and users/{uid} carries that
\* status, that email and, if one was given, that customer id.
C1_SyncPostcondition ==
  [][\A r \in Reqs : SyncReturnsTrue(r) => SyncPost(r)']_vars

\* C1 witness: one reconciler call succeeded on an identity that existed
\* beforehand, another on one it had to provision, with a customer id.
C1_Witness ==
  \E r1, r2 \in Reqs :
    /\ reqs[r1].result = "true" /\ reqs[r2].result = "true"
    /\ \E x \in auth0 : x.uid = reqs[r1].uid
    /\ \A x \in auth0 : x.uid # reqs[r2].uid
    /\ reqs[r2].customerId = "cus_a"

\* r is the second of two deliveries of one event made in sequence: the
\* first, o, had been answered without a fault before r arrived, and no
\* other delivery is under way
SecondDelivery(r) ==
  \E o \in reqs[r].after :
    /\ reqs[o].event = reqs[r].event
    /\ reqs[o].sig = reqs[r].sig
    /\ reqs[o].fault = NoValue
    /\ \A n \in Reqs \ {o, r} : reqs[n].pc = "idle"

\* two documents agree in every field but updated_at
SameButTimestamp(d1, d2) ==
  [d1 EXCEPT !.updated_at = 0] = [d2 EXCEPT !.updated_at = 0]

\* C2 (as stated): processing an event a second time, in sequence, leaves
\* the identity set and every field of every account document as the first
\* processing left them.
C2_IdempotentAllFields ==
  [][\A r \in Reqs :
       (SecondDelivery(r) /\ reqs'[r] # reqs[r])
         => (authUsers' = authUsers /\ docs' = docs)]_vars

\* C2 (amended): processing an event a second time, in sequence, leaves the
\* identity set and every field of every account document as the first
\* processing left them, except updated_at, which takes the server time of
\* the second write.
C2_IdempotentButTimestamp ==
  [][\A r \in Reqs :
       (SecondDelivery(r) /\ reqs'[r] # reqs[r])
         => /\ authUsers' = authUsers
            /\ \A u \in Uids :
                 /\ SameButTimestamp(docs'[u], docs[u])
                 /\ docs'[u].updated_at >= docs[u].updated_at]_vars

\* C2 witness: an event was processed to a successful upsert, then
\* delivered and processed to a successful upsert again.
C2_Witness ==
  \E r \in Reqs :
    /\ SecondDelivery(r)
    /\ reqs[r].result = "true"
    /\ \E o \in reqs[r].after :
         reqs[o].event = reqs[r].event /\ reqs[o].result = "true"
                                       /\ reqs[o].uid = reqs[r].uid

\* every email resolves to at most one uid, and no uid is handed out twice
UniqueIdentity ==
  \A x, y \in authUsers : (x.email = y.email \/ x.uid = y.uid) => x = y

\* q1 and q2 are finished deliveries of one event, accepted and free of
\* injected faults, for an email that had no identity at the start
DuplicatePair(q1, q2) ==
  /\ q1.pc = "done" /\ q2.pc = "done"
  /\ q1.event = q2.event /\ q1.sig = q2.sig
  /\ q1.fault = NoValue /\ q2.fault = NoValue
  /\ q1.email # NoValue /\ q2.email = q1.email
  /\ IdentitiesOf(auth0, q1.email) = {}

\* C3: each email resolves to at most one uid in every reachable state, and
\* once two deliveries of one event for an email without an identity have
\* both finished, however their steps interleaved, one identity has been
\* provisioned and the store is what a single delivery leaves.
C3_NoDoubleProvisioning ==
  /\ UniqueIdentity
  /\ \A r1, r2 \in Reqs :
       (/\ r1 < r2
        /\ DuplicatePair(reqs[r1], reqs[r2])
        /\ \A n \in Reqs \ {r1, r2} : reqs[n].pc = "idle")
         => SingleDeliveryState(reqs[r1])

\* C3 witness: two deliveries of one event both looked the email up before
\* either created it; the loser's createUser was rejected.
C3_Witness ==
  \E r1, r2 \in Reqs :
    /\ r1 # r2
    /\ DuplicatePair(reqs[r1], reqs[r2])
    /\ reqs[r1].result = "true"
    /\ reqs[r2].conflict

\* C4 (as stated): a delivery whose createUser was rejected because the
\* email is registered still resolves the existing identity and upserts its
\* document: the reconciler returns true.
C4_ConflictTreatedAsSuccess ==
  \A r \in Reqs :
    (reqs[r].pc = "done" /\ reqs[r].conflict)
      => /\ reqs[r].result = "true"
         /\ \E x \in IdentitiesOf(authUsers, reqs[r].email) :
              x.uid = reqs[r].uid

\* the fields an upsert by r may not touch are the same before and after
UpsertFrame(r) ==
  LET u == reqs[r].uid
  IN /\ \A w \in Uids \ {u} : docs'[w] = docs[w]
     /\ docs'[u].onboarding_completed = docs[u].onboarding_completed
     /\ (reqs[r].customerId \in {NoValue, ""}
           => docs'[u].stripe_customer_id = docs[u].stripe_customer_id)
     /\ authUsers' = authUsers

\* C5: the upsert changes nothing but subscription_status, updated_at, email
\* and, when a customer id is supplied, stripe_customer_id: the document's
\* other fields, its stripe_customer_id when none is supplied, and every
\* other user's document stay as they were.
C5_UpsertFrame ==
  [][\A r \in Reqs : SyncReturnsTrue(r) => UpsertFrame(r)]_vars

\* C5 witness: an upsert without a customer id changed the status of a
\* document that holds onboarding data and a customer id, next to another
\* user's document.
C5_Witness ==
  \E r \in Reqs :
    /\ reqs[r].result = "true"
    /\ reqs[r].customerId = NoValue
    /\ docs0[reqs[r].uid].onboarding_completed = "true"
    /\ docs0[reqs[r].uid].stripe_customer_id = "cus_old"
    /\ docs[reqs[r].uid].subscription_status
         # docs0[reqs[r].uid].subscription_status
    /\ \E w \in Uids \ {reqs[r].uid} : docs[w].exists

\* the billing event types the specification maps to a status
RecognisedTypes ==
  {"checkout.session.completed", "invoice.payment_succeeded",
   "invoice.payment_failed", "customer.subscription.updated",
   "customer.subscription.deleted"}

\* the status the specification's table gives an event
ClaimStatus(ev) ==
  CASE ev.type \in {"checkout.session.completed",
                    "invoice.payment_succeeded"} -> "active"
    [] ev.type = "invoice.payment_failed" -> "past_due"
    [] ev.type = "customer.subscription.updated" -> ev.status
    [] ev.type = "customer.subscription.deleted" -> "canceled"
    [] OTHER -> NoValue

\* the email an event of a recognised type names: a session's
\* customer_details, an invoice's customer_email, a subscription's customer
ClaimEmail(ev) ==
  CASE ev.type = "checkout.session.completed" -> ev.details_email
    [] ev.type \in {"invoice.payment_succeeded",
                    "invoice.payment_failed"} -> ev.customer_email
    [] ev.type \in {"customer.subscription.updated",
                    "customer.subscription.deleted"} ->
         IF ev.customer = "cus_a" THEN "a@x" ELSE NoValue
    [] OTHER -> NoValue

\* C6 (as stated): in each handler an accepted event of a recognised type
\* that names an email, processed without a fault, stores the status of the
\* table: active for checkout completed and invoice paid, past_due for
\* payment failed, the reported status for subscription updated, canceled
\* for subscription deleted.
C6_EventStatusMapping ==
  \A r \in Reqs :
    (/\ reqs[r].pc = "done"
     /\ Accepted(r)
     /\ reqs[r].fault = NoValue /\ ~reqs[r].conflict
     /\ reqs[r].event.type \in RecognisedTypes
     /\ ClaimEmail(reqs[r].event) # NoValue)
      => /\ reqs[r].result = "true"
         /\ reqs[r].status = ClaimStatus(reqs[r].event)
         /\ reqs[r].email = ClaimEmail(reqs[r].event)

\* the delivery's signature cannot be verified: no header, no configured
\* secret, or a signature that was not made with the secret
Unverifiable(r) ==
  \/ reqs[r].sig = NoValue
  \/ endpointSecret = ""
  \/ SignedWith(reqs[r].sig) # endpointSecret

\* C7 (as stated): a delivery whose signature header is missing, or that
\* arrives while no secret is configured, or whose signature does not
\* verify, is answered 400 with an error message and never reaches event
\* processing: it calls no reconciler and writes nothing.
C7_RejectUnverified ==
  \A r \in Reqs :
    (reqs[r].pc \notin {"idle", "verify"} /\ Unverifiable(r))
      => /\ reqs[r].pc = "done"
         /\ reqs[r].response = [code |-> 400, body |-> "Webhook Error"]
         /\ reqs[r].result = NoValue
         /\ reqs[r].uid = 0

\* C8: a step of a delivery whose event type is not a recognised one leaves
\* the identity store and every document unchanged, and when the delivery
\* was accepted it is answered 200 {received: true} without a reconciler
\* call.
C8_UnknownTypeIgnored ==
  [][\A r \in Reqs :
       (reqs'[r] # reqs[r] /\ reqs'[r].event.type \notin RecognisedTypes)
         => /\ authUsers' = authUsers
            /\ docs' = docs
            /\ (reqs'[r].pc = "done" /\ Accepted(r)')
                 => /\ reqs'[r].response =
                         [code |-> 200, body |-> "received"]
                    /\ reqs'[r].result = NoValue]_vars

\* C8 witness: an accepted delivery of an unrecognised type was answered
\* while the store holds an account.
C8_Witness ==
  \E r \in Reqs :
    /\ reqs[r].pc = "done"
    /\ Accepted(r)
    /\ reqs[r].event.type = "customer.created"
    /\ reqs[r].response.code = 200
    /\ authUsers # {}

SyncFaults == {"lookup", "create", "write"}

\* r2 is a redelivery of the event of r1, which failed inside the
\* reconciler and had been answered before r2 arrived; r2 met no fault
RetryOf(r1, r2) ==
  /\ r1 \in reqs[r2].after
  /\ reqs[r1].fault \in SyncFaults
  /\ reqs[r2].event = reqs[r1].event
  /\ reqs[r2].sig = reqs[r1].sig
  /\ reqs[r2].pc = "done"
  /\ reqs[r2].fault = NoValue
  /\ \A n \in Reqs \ {r1, r2} : reqs[n].pc = "idle"

\* C10: a fault in the identity lookup, the identity creation or the
\* document write ends the reconciler with false and the handler with its
\* one normal answer, never an exception; and when the same event is
\* redelivered with the fault gone, the store ends as a single successful
\* delivery leaves it: one identity, one upsert, nothing left of the
\* failed attempt.
C10_FaultCaughtAndRetryable ==
  /\ \A r \in Reqs :
       reqs[r].fault \in SyncFaults
         => /\ reqs[r].pc = "done"
            /\ reqs[r].result = "false"
            /\ reqs[r].sent = 1
            /\ reqs[r].response = [code |-> 200, body |-> "received"]
  /\ \A r1, r2 \in Reqs :
       RetryOf(r1, r2) => SingleDeliveryState(reqs[r2])

\* C10 witness: the first delivery provisioned an identity and then failed
\* to write its document; the redelivery found that identity and wrote it.
C10_Witness ==
  \E r1, r2 \in Reqs :
    /\ RetryOf(r1, r2)
    /\ reqs[r1].fault = "write"
    /\ \A x \in auth0 : x.uid # reqs[r1].uid
    /\ reqs[r2].uid = reqs[r1].uid
    /\ reqs[r2].result = "true"

\* r1 and r2 both upserted the same account
BothWrote(r1, r2) ==
  /\ reqs[r1].result = "true" /\ reqs[r2].result = "true"
  /\ reqs[r1].uid = reqs[r2].uid

\* every delivery has been answered
AllProcessed == \A r \in Reqs : reqs[r].pc = "done"

\* C11 (as stated): once all deliveries are processed, overlapping ones
\* included, an account that two of them upserted holds the status of the
\* one that arrived last.
C11_LastArrivalWins ==
  \A r1, r2 \in Reqs :
    (AllProcessed /\ r1 < r2 /\ BothWrote(r1, r2)
       /\ \A n \in Reqs : n > r2 => reqs[n].uid # reqs[r2].uid)
      => docs[reqs[r2].uid].subscription_status = reqs[r2].status

\* C11 (amended): an account that two deliveries upserted holds the status
\* of the one whose write was committed last; that is the one that arrived
\* last whenever the earlier one had been answered before the later one
\* arrived.
C11_LastCommitWins ==
  \A r1, r2 \in Reqs :
    (BothWrote(r1, r2)
       /\ \A n \in Reqs : reqs[n].uid = reqs[r2].uid
                            => reqs[n].wroteAt <= reqs[r2].wroteAt)
      => /\ docs[reqs[r2].uid].subscription_status = reqs[r2].status
         /\ docs[reqs[r2].uid].updated_at = reqs[r2].wroteAt
         /\ (r1 \in reqs[r2].after => reqs[r1].wroteAt < reqs[r2].wroteAt)

\* C11 witness: the delivery that arrived first committed its write last,
\* and its status, not the later arrival's, is the one stored.
C11_Witness ==
  \E r1, r2 \in Reqs :
    /\ r1 < r2 /\ BothWrote(r1, r2)
    /\ reqs[r1].wroteAt > reqs[r2].wroteAt
    /\ reqs[r1].status # reqs[r2].status
    /\ docs[reqs[r1].uid].subscription_status = reqs[r1].status

\* the event types whose email comes from stripe.customers.retrieve
SubscriptionTypes ==
  {"customer.subscription.updated", "customer.subscription.deleted"}

\* the delivery in slot r was dropped without touching either store
DroppedUntouched(q) ==
  /\ q.pc = "done" /\ q.sent = 1
  /\ q.email = NoValue /\ q.uid = 0
  /\ q.result = NoValue /\ q.wroteAt = 0

\* C12: when stripe.customers.retrieve fails for a subscription updated or
\* deleted event, the step that takes the failure answers the request and
\* changes neither the identity store nor any account document; the
\* reconciler is never entered for it, and the request takes no further
\* step (nothing is rescheduled).
C12_LookupFailureDropsEvent ==
  [][\A r \in Reqs :
       reqs'[r].fault = "retrieve" =>
         /\ reqs'[r].event.type \in SubscriptionTypes
         /\ DroppedUntouched(reqs'[r])
         /\ reqs[r] # reqs'[r] => (authUsers' = authUsers /\ docs' = docs)
         /\ reqs[r].fault = "retrieve" => reqs'[r] = reqs[r]]_vars

\* C12 witness: a subscription event whose customer lookup failed has been
\* answered, its email has no identity, and another delivery went on to
\* finish afterwards.
C12_Witness ==
  \E r, o \in Reqs :
    /\ reqs[r].fault = "retrieve" /\ reqs[r].pc = "done"
    /\ reqs[r].event.type \in SubscriptionTypes
    /\ UsersByEmail(authUsers, CustomerEmail(reqs[r].event.customer)) = {}
    /\ o # r /\ reqs[o].pc = "done" /\ r \in reqs[o].after

\* the values the data model declares for subscription_status
DeclaredStatuses ==
  {"active", "trialing", "past_due", "canceled", "unpaid", NoValue}

\* C13: in every reachable state the subscription_status of every account
\* document is active, trialing, past_due, canceled or unpaid, or is absent.
C13_StatusInDeclaredSet ==
  \A u \in Uids : docs[u].subscription_status \in DeclaredStatuses

\* the event types that report a successful payment
PaymentTypes == {"checkout.session.completed", "invoice.payment_succeeded"}

\* the step of slot r that returns from auth.createUser with a new identity
Provisions(r) ==
  /\ reqs[r].pc = "create" /\ reqs'[r].pc # "create"
  /\ authUsers' # authUsers

\* C20: an identity is created only while a successful payment event
\* (checkout completed or invoice paid) is processed, for an email that had
\* none; payment-failed and subscription events never create one.
C20_ProvisionOnlyOnPayment ==
  [][\A r \in Reqs :
       Provisions(r) =>
         /\ reqs[r].event.type \in PaymentTypes
         /\ \A u \in authUsers : u.email # reqs[r].email]_vars

\* ---------------------------------------------------------------- C14-C15
\* the local days of the window that are on or after the streak start
StreakDays ==
  {d \in (Today - (selectedRange - 1))..Today : d >= streakStart}

\* the points of a chart
PointsOf(r) == {r.processedData[i] : i \in DOMAIN r.processedData}

\* C14: fetchHistory emits at most N points, each with dayNumber >= 1;
\* exactly N when the streak started on or before the first day of the
\* window; and only the days on or after the streak start are emitted and
\* counted: one point for each of them, none for an earlier day, and the
\* perfect-day count counts perfect days among them only.
C14_WindowAndStreak ==
  historyResults # Pending =>
    LET pts == historyResults.processedData
    IN /\ Len(pts) <= selectedRange
       /\ \A i \in DOMAIN pts : pts[i].dayNumber >= 1
       /\ streakStart <= Today - (selectedRange - 1)
            => Len(pts) = selectedRange
       /\ \A i \in DOMAIN pts : pts[i].fullDate \in StreakDays
       /\ Len(pts) = Cardinality(StreakDays)
       /\ historyResults.newStats.perfectDays <= Cardinality(StreakDays)
       /\ (StreakDays = {} => historyResults.newStats.average = 0)

\* the point emitted for local day d, if any
PointsFor(d) == {p \in PointsOf(historyResults) : p.fullDate = d}

\* C15: every emitted point's value is an integer from 0 to 100, whatever
\* the day's record: none, one whose completed_count exceeds total_habits,
\* one without total_habits or with total_habits 0.
C15_ValueInRange ==
  historyResults # Pending =>
    \A p \in PointsOf(historyResults) : p.value \in 0..100

\* C15 witness: a record with more completions than habits gave a point of
\* exactly 100, and a record with total_habits 0 and one completion gave
\* the point 17 (1 of the default 6).
C15_Witness ==
  /\ historyResults # Pending
  /\ \E d \in RecordDays :
       /\ history[d].exists
       /\ history[d].total_habits > 0
       /\ history[d].completed_count > history[d].total_habits
       /\ \E p \in PointsFor(d) : p.value = 100
  /\ \E d \in RecordDays :
       /\ history[d].exists
       /\ history[d].total_habits = 0
       /\ history[d].completed_count = 1
       /\ \E p \in PointsFor(d) : p.value = 17

\* -------------------------------------------------------------------- C16
\* the zero-value insight
ZeroInsight ==
  [totalLogs |-> 0, topEmotion |-> Null, topContext |-> Null,
   ranking |-> <<>>]

\* C16: when the list of trigger logs is empty, processTriggerInsights sets
\* the insight to totalLogs 0, topEmotion null, topContext null and an
\* empty ranking (and so completes without an error).
C16_EmptyLogsZeroInsight ==
  [][(logs = <<>> /\ triggerInsight' # triggerInsight)
       => triggerInsight' = ZeroInsight]_vars

\* C16 witness: the insight of an empty list has been set.
C16_Witness == logs = <<>> /\ triggerInsight = ZeroInsight

\* ---------------------------------------------------------------- C17-C18
\* how many logs carry value v in a field, counted on the input itself
Occurrences(ls, field, v) ==
  Cardinality({i \in DOMAIN ls : ls[i][field] = v})

\* the values a field takes in the input
ValuesIn(ls, field) == {ls[i][field] : i \in DOMAIN ls}

\* the position of the first log that carries v
FirstSeen(ls, field, v) ==
  CHOOSE i \in DOMAIN ls :
    /\ ls[i][field] = v
    /\ \A j \in DOMAIN ls : ls[j][field] = v => i <= j

\* v comes before w: a higher count, or an equal count and seen first
Precedes(ls, field, v, w) ==
  \/ Occurrences(ls, field, v) > Occurrences(ls, field, w)
  \/ /\ Occurrences(ls, field, v) = Occurrences(ls, field, w)
     /\ FirstSeen(ls, field, v) < FirstSeen(ls, field, w)

\* p is count / total * 100 rounded to the nearest integer, halves up
IsRoundedPercent(p, count, total) ==
  /\ p \in 0..100
  /\ 2 * total * p <= 200 * count + total
  /\ 200 * count + total < 2 * total * (p + 1)

\* top is the most frequent value of the field, first seen on a tie, with
\* its count and percentage
IsTop(ls, field, top) ==
  /\ top.name \in ValuesIn(ls, field)
  /\ \A w \in ValuesIn(ls, field) \ {top.name} :
       Precedes(ls, field, top.name, w)
  /\ top.count = Occurrences(ls, field, top.name)
  /\ IsRoundedPercent(top.percentage, top.count, Len(ls))

\* the insight of the logs has been computed
InsightSet == triggerInsight # Null

\* C17: for a non-empty list, topEmotion is the emotion with the highest
\* count and topContext the context with the highest count, the one seen
\* first in the input on a tie, each with its count and its percentage
\* round(count / totalLogs * 100).
C17_TopIsMostFrequentFirstSeen ==
  (InsightSet /\ logs # <<>>) =>
    /\ IsTop(logs, "emotion", triggerInsight.topEmotion)
    /\ IsTop(logs, "context", triggerInsight.topContext)

\* C18: for a non-empty list, ranking holds the min(3, number of distinct
\* emotions) emotions with the highest counts, each with its exact tally,
\* in non-increasing count order; emotions with equal counts stand in the
\* order of their first occurrence, and that order also decides which of
\* them are among the three.
C18_RankingTopThreeFirstSeen ==
  (InsightSet /\ logs # <<>>) =>
    LET ranking == triggerInsight.ranking
        emotions == ValuesIn(logs, "emotion")
        ranked == {ranking[i].name : i \in DOMAIN ranking}
    IN /\ Len(ranking) = MathMin(3, Cardinality(emotions))
       /\ \A i \in DOMAIN ranking :
            /\ ranking[i].name \in emotions
            /\ ranking[i].count = Occurrences(logs, "emotion", ranking[i].name)
       /\ \A i, j \in DOMAIN ranking :
            i < j => Precedes(logs, "emotion", ranking[i].name,
                              ranking[j].name)
       /\ \A v \in ranked, w \in emotions \ ranked :
            Precedes(logs, "emotion", v, w)

\* -------------------------------------------------------------------- C19
\* invocation c returns in this step
Returns(c) == calls[c].pc # "done" /\ calls'[c].pc = "done"

\* the derived state is, piece by piece, what invocation q fetched
ShowsFetchOf(q) ==
  /\ q.hist = "ok" /\ q.trig = "ok"
  /\ chartData = q.historyResults.processedData
  /\ stats = q.historyResults.newStats
  /\ triggerInsight.totalLogs = Len(q.triggerLogs)

\* C19: when a fetchData call returns, the chart points, the statistics and
\* the trigger insight have either all been replaced by what that call
\* fetched, or (a fetch failed, or nobody is signed in) none of them has
\* changed; and no other step changes any of the three.
C19_AllOrNothing ==
  [][/\ \A c \in CallIds :
          Returns(c) =>
            IF calls'[c].outcome = "ok"
            THEN /\ chartData' = calls'[c].historyResults.processedData
                 /\ stats' = calls'[c].historyResults.newStats
                 /\ triggerInsight' # Null
                 /\ triggerInsight'.totalLogs = Len(calls'[c].triggerLogs)
                 /\ calls'[c].hist = "ok" /\ calls'[c].trig = "ok"
            ELSE /\ chartData' = chartData
                 /\ stats' = stats
                 /\ triggerInsight' = triggerInsight
     /\ (\A c \in CallIds : ~Returns(c)) =>
          /\ chartData' = chartData
          /\ stats' = stats
          /\ triggerInsight' = triggerInsight]_vars

\* C19 witness: a call whose history fetch succeeded and whose trigger fetch
\* failed returned after a successful call for another range, and the screen
\* still shows all three results of the successful one.
C19_Witness ==
  \E c1, c2 \in CallIds :
    /\ calls[c1].outcome = "ok" /\ calls[c2].outcome = "failed"
    /\ calls[c2].hist = "ok" /\ calls[c2].trig = "failed"
    /\ calls[c1].doneAt < calls[c2].doneAt
    /\ calls[c2].historyResults.processedData
         # calls[c1].historyResults.processedData
    /\ ShowsFetchOf(calls[c1])

\* -------------------------------------------------------------------- C21
\* how often an invocation has awaited a call, and how often it succeeded
Attempts(q, op) ==
  Cardinality({i \in DOMAIN q.ops : q.ops[i] \in {op, op \o ":rejected"}})

Successes(q, op) == Cardinality({i \in DOMAIN q.ops : q.ops[i] = op})

\* the delivery in slot r is a handled event that has been answered
Handled(r) ==
  /\ reqs[r].pc = "done"
  /\ Accepted(r)
  /\ reqs[r].event.type \in RecognisedTypes

\* uid was handed out by the createUser call of a request other than r
CreatedElsewhere(r, uid) ==
  \/ \E u \in auth0 : u.uid = uid
  \/ \E o \in Reqs \ {r} :
       reqs[o].uid = uid /\ Successes(reqs[o], "createUser") = 1

\* C21 (as stated): every handled event causes exactly one identity-store
\* write and exactly one document upsert; it reads the identity by email
\* once and, for a subscription event, the customer once.  Stated here for
\* the handled events that the reconciler processed to the end.
C21_ExactlyOneWriteEach ==
  \A r \in Reqs :
    (Handled(r) /\ reqs[r].result = "true") =>
      /\ Successes(reqs[r], "createUser") = 1
      /\ Successes(reqs[r], "set") = 1
      /\ Attempts(reqs[r], "getUserByEmail") = 1
      /\ Attempts(reqs[r], "customers.retrieve") =
           (IF reqs[r].event.type \in SubscriptionTypes THEN 1 ELSE 0)

\* C21 (amended): an event causes at most one identity-store write and at
\* most one document upsert.  When the reconciler returns true the upsert
\* was made exactly once, after exactly one identity lookup, and the
\* identity-store write was made exactly when the lookup found no identity;
\* otherwise no upsert was made.  The only other call is one customer
\* lookup, made first, and only for subscription events.
C21_AtMostOneWriteEach ==
  \A r \in Reqs :
    LET q == reqs[r]
    IN /\ Attempts(q, "createUser") <= 1
       /\ Attempts(q, "set") <= 1
       /\ Attempts(q, "getUserByEmail") <= 1
       /\ Attempts(q, "customers.retrieve") <= 1
       /\ Len(q.ops) = Attempts(q, "createUser") + Attempts(q, "set")
                         + Attempts(q, "getUserByEmail")
                         + Attempts(q, "customers.retrieve")
       /\ Attempts(q, "customers.retrieve") = 1 =>
            /\ q.event.type \in SubscriptionTypes
            /\ q.ops[1] \in {"customers.retrieve",
                             "customers.retrieve:rejected"}
       /\ (Handled(r) /\ q.event.type \in SubscriptionTypes
             /\ Branch(variant, q.event.type) # "default") =>
            Attempts(q, "customers.retrieve") = 1
       /\ Attempts(q, "createUser") = 1 =>
            Successes(q, "getUserByEmail") = 1
       /\ (q.result = "true") <=> (Successes(q, "set") = 1)
       /\ q.result = "true" =>
            /\ Successes(q, "getUserByEmail") = 1
            /\ q.ops[Len(q.ops)] = "set"
            /\ (Successes(q, "createUser") = 1)
                 <=> ~CreatedElsewhere(r, q.uid)

\* C21 witness: one handled event created the identity and upserted the
\* document (lookup, create, set); a later subscription event for the same
\* account looked the customer up, found the identity and upserted only.
C21_Witness ==
  \E r1, r2 \in Reqs :
    /\ Handled(r1) /\ Handled(r2)
    /\ reqs[r1].ops = <<"getUserByEmail", "createUser", "set">>
    /\ reqs[r2].ops = <<"customers.retrieve", "getUserByEmail", "set">>
    /\ reqs[r1].uid = reqs[r2].uid

\* -------------------------------------------------------------------- C22
\* the invocation in slot r commits its upsert in this step
Upserts(r) == reqs[r].pc = "write" /\ reqs'[r].result = "true"

\* C22: no step removes an identity or an account document, and the upsert
\* of a subscription deleted event leaves the document in place with its
\* profile field, its status now canceled.
C22_NothingDeleted ==
  [][/\ authUsers \subseteq authUsers'
     /\ \A u \in Uids : docs[u].exists => docs'[u].exists
     /\ \A r \in Reqs :
          (Upserts(r)
             /\ reqs[r].event.type = "customer.subscription.deleted") =>
            LET before == docs[reqs[r].uid]
                after == docs'[reqs[r].uid]
            IN /\ after.exists
               /\ after.subscription_status = "canceled"
               /\ after.onboarding_completed = before.onboarding_completed
               /\ \E u \in authUsers' : u.uid = reqs[r].uid]_vars

\* C22 witness: a subscription deleted event has been processed for a
\* member who had completed onboarding: the identity and the document are
\* still there, onboarding still completed, the status canceled.
C22_Witness ==
  \E r \in Reqs :
    /\ reqs[r].event.type = "customer.subscription.deleted"
    /\ reqs[r].result = "true"
    /\ docs0[reqs[r].uid].subscription_status = "active"
    /\ docs0[reqs[r].uid].onboarding_completed = "true"
    /\ docs[reqs[r].uid].exists
    /\ docs[reqs[r].uid].subscription_status = "canceled"
    /\ docs[reqs[r].uid].onboarding_completed = "true"
    /\ \E u \in authUsers : u.uid = reqs[r].uid

\* -------------------------------------------------------------------- C27
\* the delivery in slot r is a verified event of a recognised type whose
\* email could be resolved (for a subscription event: the customer lookup
\* answered and the customer has an email)
Resolvable(r) ==
  /\ Accepted(r)
  /\ reqs[r].event.type \in RecognisedTypes
  /\ Truthy(ClaimEmail(reqs[r].event))
  /\ reqs[r].fault # "retrieve"

RoundsTo(v, a, b) == (2 * v - 1) * b <= 2 * a /\ 2 * a < (2 * v + 1) * b

\* v is min(round(c / t * 100), 100)
IsCappedPercent(v, c, t) ==
  \E r \in 0..(100 * c) : RoundsTo(r, 100 * c, t) /\ v = MathMin(r, 100)

\* the days of the window for which the loop computes dayNumber >= 1
EmittedDays ==
  {d \in (Today - (selectedRange - 1))..Today :
     DayNumber(d, streakStart, zone) >= 1}

\* the record of local day d in the store, if it has one
StoredRecord(d) ==
  IF d \in DOMAIN history /\ history[d].exists THEN history[d] ELSE NoRecord

\* C23: every day of the window with dayNumber >= 1 is emitted as one
\* point; its value is min(round(completed_count / total_habits * 100), 100)
\* of that day's record, and a day without a record is the point with count
\* 0 and value 0 (0 of 6); 3 of 6 gives 50 and 6 of 6 gives 100.
C23_ValueFromRecord ==
  historyResults # Pending =>
    \A d \in EmittedDays :
      LET rec == StoredRecord(d)
      IN /\ Cardinality(PointsFor(d)) = 1
         /\ \A p \in PointsFor(d) :
              /\ ~rec.exists => p.count = 0 /\ p.value = 0
              /\ (rec.exists /\ rec.completed_count # Missing
                    /\ rec.total_habits > 0) =>
                   /\ p.count = rec.completed_count
                   /\ IsCappedPercent(p.value, rec.completed_count,
                                      rec.total_habits)
              /\ (rec.completed_count = 3 /\ rec.total_habits = 6) =>
                   p.value = 50
              /\ (rec.completed_count = 6 /\ rec.total_habits = 6) =>
                   p.value = 100

\* C23 witness: a chart with the point 50 for a day with 3 of 6, the point
\* 100 for a day with 6 of 6, and a zero point for a day in between that
\* has no record.
C23_Witness ==
  /\ historyResults # Pending
  /\ history[-3].exists /\ history[-3].completed_count = 3
  /\ history[-3].total_habits = 6
  /\ \E p \in PointsFor(-3) : p.value = 50 /\ p.count = 3
  /\ history[0].exists /\ history[0].completed_count = 6
  /\ history[0].total_habits = 6
  /\ \E p \in PointsFor(0) : p.value = 100 /\ p.count = 6
  /\ \E p \in PointsFor(-1) : p.value = 0 /\ p.count = 0

\* -------------------------------------------------------------------- C24
\* the values of the sequence of points pts added up, value by value
RECURSIVE WeightedSum(_, _)
WeightedSum(pts, vs) ==
  IF vs = {} THEN 0
  ELSE LET v == CHOOSE x \in vs : TRUE
       IN v * Cardinality({i \in DOMAIN pts : pts[i].value = v})
            + WeightedSum(pts, vs \ {v})

SumOfValues(pts) == WeightedSum(pts, {pts[i].value : i \in DOMAIN pts})

\* C24: perfectDays is the number of emitted points with value 100;
\* average is round(sum of the values / number of points), and 0 when no
\* point is emitted; average is an integer from 0 to 100 and perfectDays is
\* at most the number of points.
C24_StatsAgreeWithPoints ==
  historyResults # Pending =>
    LET pts == historyResults.processedData
        st == historyResults.newStats
    IN /\ st.perfectDays =
            Cardinality({i \in DOMAIN pts : pts[i].value = 100})
       /\ Len(pts) = 0 => st.average = 0
       /\ Len(pts) > 0 => RoundsTo(st.average, SumOfValues(pts), Len(pts))
       /\ st.average \in 0..100
       /\ st.perfectDays \in 0..Len(pts)

\* C24 witness: a streak of three days inside the window, the last of them
\* perfect and the others empty: one perfect day, average 33.
C24_Witness ==
  /\ historyResults # Pending
  /\ Len(historyResults.processedData) = 3
  /\ Len(historyResults.processedData) < selectedRange
  /\ historyResults.newStats = [average |-> 33, perfectDays |-> 1]

\* -------------------------------------------------------------------- C25
\* C25: the points are in ascending date order and no date appears twice;
\* the last point is today; a point's label is "D" and its dayNumber, and
\* its dayNumber is the number of whole days from the streak start to its
\* date plus 1; consecutive points have consecutive dayNumbers; a streak
\* that began inside the window starts the sequence at D1.
C25_LabelsFollowCalendar ==
  historyResults # Pending =>
    LET pts == historyResults.processedData
    IN /\ \A i, j \in DOMAIN pts : i < j => pts[i].fullDate < pts[j].fullDate
       /\ Len(pts) > 0 => pts[Len(pts)].fullDate = Today
       /\ \A i \in DOMAIN pts :
            /\ pts[i].label = <<"D", pts[i].dayNumber>>
            /\ pts[i].dayNumber = pts[i].fullDate - streakStart + 1
       /\ \A i \in DOMAIN pts :
            i > 1 => pts[i].dayNumber = pts[i - 1].dayNumber + 1
       /\ (Len(pts) > 0 /\ streakStart >= Today - (selectedRange - 1))
            => pts[1].dayNumber = 1

\* -------------------------------------------------------------------- C26
\* the fetchData invocation of the current selection: the last one started
Latest(c) ==
  /\ calls[c].pc # "idle"
  /\ \A d \in CallIds : d > c => calls[d].pc = "idle"

InFlight(c) == calls[c].pc \in {"userDoc", "fetching"}

\* C26: after a range change during a fetch, the loading flag stays set
\* while the fetch of the current selection is pending, and once no fetch is
\* in flight the chart, the statistics and the insight are those that the
\* fetch of the current selection computed: an earlier fetch that settles
\* later does not overwrite them.
C26_CurrentSelectionShown ==
  \A c \in CallIds :
    Latest(c) =>
      /\ calls[c].range = selectedRange
      /\ InFlight(c) => loading
      /\ ((\A d \in CallIds : ~InFlight(d)) /\ calls[c].outcome = "ok")
           => ShowsFetchOf(calls[c])

\* -------------------------------------------------------------------- C28
\* a protected route is on screen
ProtectedRendered ==
  ~appLoading /\ user # NoValue /\ route \in ProtectedRoutes

\* C28: once a guard callback has found the account document with
\* subscription_status canceled, unpaid or past_due, it signs the user out
\* and leaves the application user unset, and no protected route is
\* rendered from then on; and whenever a guard callback has ended (admit,
\* block or error), loading is false.
C28_BlockedStaysOut ==
  \A g \in GuardIds :
    /\ guards[g].pc = "done" => ~appLoading
    /\ (guards[g].pc = "done" /\ guards[g].snap \in blockedStatuses) =>
         /\ user = NoValue
         /\ ~ProtectedRendered

\* -------------------------------------------------------------------- C29
\* C29: for every state of the account document, the login screen's check
\* after sign-in admits the user exactly when the auth guard admits the
\* user: no user is admitted by one and signed out by the other.
C29_PaywallChecksAgree ==
  \A g \in GuardIds :
    (guards[g].outcome \in {"admit", "block"}
       /\ login.outcome \in {"admit", "signedOut"}) =>
      (guards[g].outcome = "admit" <=> login.outcome = "admit")

\* -------------------------------------------------------------------- C30
\* the notifications delivered to user u
PushesTo(u) == {i \in DOMAIN pushes : pushes[i].user = u}

\* C30, the conditions of a send: the user had an fcm_token, last_active_at
\* was more than 24 hours before the run's `now`, and
\* last_notification_sent_at was absent or at least 20 hours before it
SentOnlyIfDue ==
  \A i \in DOMAIN pushes :
    LET p == pushes[i]
    IN /\ p.doc.fcm_token
       /\ p.doc.last_active_at # Missing
       /\ p.now - p.doc.last_active_at > 24
       /\ \/ p.doc.last_notification_sent_at = Missing
          \/ p.now - p.doc.last_notification_sent_at >= 20

\* C30, the bookkeeping: last_notification_sent_at changes only in a run
\* that delivered a notification to the user, and the step that removes the
\* fcm_token follows a rejected send and leaves last_notification_sent_at
TimestampOnlyAfterSend ==
  \A u \in TaskUsers :
    /\ userDocs'[u].last_notification_sent_at
         # userDocs[u].last_notification_sent_at
       => /\ \E i \in PushesTo(u) : pushes[i].run = run.n
          /\ userDocs'[u].fcm_token = userDocs[u].fcm_token
    /\ (userDocs[u].fcm_token /\ ~userDocs'[u].fcm_token)
       => /\ \A i \in PushesTo(u) : pushes[i].run # run.n
          /\ userDocs'[u].last_notification_sent_at
               = userDocs[u].last_notification_sent_at

\* C30, the consequence: two notifications delivered to the same user are
\* at least 20 hours apart
PushesSpaced ==
  \A i, j \in DOMAIN pushes :
    (i < j /\ pushes[i].user = pushes[j].user)
      => pushes[j].at - pushes[i].at >= 20

\* C30: a notification is sent only to a user with an fcm_token, inactive
\* for more than 24 hours and not notified in the last 20 hours;
\* last_notification_sent_at is updated only after a successful send; a
\* send rejected for the token removes fcm_token and leaves
\* last_notification_sent_at; and so, over any sequence of runs, two
\* successful notifications to one user are at least 20 hours apart.
C30_NotificationsSpaced ==
  [][/\ SentOnlyIfDue'
     /\ TimestampOnlyAfterSend
     /\ PushesSpaced']_vars

====
